---------------------------- MODULE Spec2Model ----------------------------
(***************************************************************************)
(* A model of the everybody-codes-rust template:                           *)
(*   - template/day.rs       Day, Day::new, Day::today, Display, FromStr,  *)
(*                           AllDays                                       *)
(*   - template/mod.rs       read_file and the main generated by solution! *)
(*   - template/ec_cli.rs    check, download, call_ec_cli                  *)
(*   - template/commands/    download::handle, scaffold::handle            *)
(* Text is a sequence of one-character strings; u8 arithmetic is kept      *)
(* within 0..255.                                                          *)
(***************************************************************************)
EXTENDS Integers, Sequences, FiniteSets, TLC

VARIABLES
    \* day.rs: the argument and the result of a call of new / from_str / fmt
    dayOp, dayArg, dayRet,
    \* day.rs: every AllDays value and what its next() returned so far
    iterCur, iterRets,
    \* day.rs: the clock (Utc::now) and the result of today()
    nowMonth, nowDay, nowHour, nowLeap, nov1Weekday, todayRet,
    \* mod.rs: the main generated by solution!, the input files of its day
    mainDay, mainParts, mainFiles, mainIdx, mainPc, mainInput, mainLog,
    \* commands/download.rs and ec_cli.rs: handle(day)
    dlDay, dlYear, dlPc, dlPart, dlRet, dlLog,
    \* commands/scaffold.rs: handle(day, overwrite) and the files it touches
    scDay, scOverwrite, scPc, scPart, scModule, scInputs, scSamples, scBefore

dayVars == <<dayOp, dayArg, dayRet>>
iterVars == <<iterCur, iterRets>>
todayVars == <<nowMonth, nowDay, nowHour, nowLeap, nov1Weekday, todayRet>>
mainVars == <<mainDay, mainParts, mainFiles, mainIdx, mainPc, mainInput, mainLog>>
dlVars == <<dlDay, dlYear, dlPc, dlPart, dlRet, dlLog>>
scVars == <<scDay, scOverwrite, scPc, scPart, scModule, scInputs, scSamples, scBefore>>
vars == <<dayVars, iterVars, todayVars, mainVars, dlVars, scVars>>

\* what a call of one part of the program leaves alone
exceptDay == <<iterVars, todayVars, mainVars, dlVars, scVars>>
exceptIter == <<dayVars, todayVars, mainVars, dlVars, scVars>>
exceptToday == <<dayVars, iterVars, mainVars, dlVars, scVars>>
exceptMain == <<dayVars, iterVars, todayVars, dlVars, scVars>>
exceptDl == <<dayVars, iterVars, todayVars, mainVars, scVars>>
exceptSc == <<dayVars, iterVars, todayVars, mainVars, dlVars>>

(***************************************************************************)
(* Bounds of the model.                                                    *)
(***************************************************************************)
\* longest text handed to from_str
MaxLen == 3
\* AllDays values alive at once
NumIters == 2
\* calls of next() made on an exhausted iterator
MaxExtraCalls == 2

(***************************************************************************)
(* Values.                                                                 *)
(***************************************************************************)
U8Max == 255
U8 == 0..U8Max
LastDay == 25

DigitChars == <<"0", "1", "2", "3", "4", "5", "6", "7", "8", "9">>
IsDigit(c) == \E i \in 1..10 : DigitChars[i] = c
DigitVal(c) == (CHOOSE i \in 1..10 : DigitChars[i] = c) - 1

\* the characters input text is drawn from: digits that reach every range of
\* u8 and beyond, both signs, a letter and a blank
Alphabet == {"0", "1", "2", "5", "6", "9", "+", "-", "a", " "}
Texts == UNION {[1..n -> Alphabet] : n \in 0..MaxLen}

\* struct Day(u8)
Day(n) == <<n>>
IntoInner(d) == d[1]

None == [kind |-> "None"]
Some(d) == [kind |-> "Some", day |-> d]
Ok(d) == [kind |-> "Ok", day |-> d]
DayFromStrError == [kind |-> "Err", err |-> "DayFromStrError"]

(***************************************************************************)
(* Day::new                                                                *)
(***************************************************************************)
\* a variant that rejects the last day
NewOffByOne(day) == IF day = 0 \/ day >= LastDay THEN None ELSE Some(Day(day))

New(day) == IF day = 0 \/ day > LastDay THEN None ELSE Some(Day(day))

(***************************************************************************)
(* impl Display for Day: write!(f, "{:02}", self.0)                        *)
(***************************************************************************)
RECURSIVE Decimal(_)
Decimal(n) == IF n < 10 THEN <<DigitChars[n + 1]>>
              ELSE Decimal(n \div 10) \o <<DigitChars[(n % 10) + 1]>>

RECURSIVE PadZero(_, _)
PadZero(text, width) == IF Len(text) >= width THEN text
                        ELSE PadZero(<<"0">> \o text, width)

\* a variant without the zero padding ("{}")
DisplayUnpadded(d) == Decimal(IntoInner(d))

Display(d) == PadZero(Decimal(IntoInner(d)), 2)

(***************************************************************************)
(* impl FromStr for Day: s.parse::<u8>() and then Day::new                 *)
(***************************************************************************)
ParseOk(n) == [kind |-> "Ok", val |-> n]
ParseErr(e) == [kind |-> "Err", err |-> e]

\* the digit loop of u8::from_str: checked_mul(10) and checked_add(digit)
RECURSIVE ParseDigits(_, _)
ParseDigits(digits, acc) ==
    IF digits = <<>> THEN ParseOk(acc)
    ELSE IF ~IsDigit(Head(digits)) THEN ParseErr("InvalidDigit")
    ELSE IF acc * 10 > U8Max THEN ParseErr("PosOverflow")
    ELSE IF acc * 10 + DigitVal(Head(digits)) > U8Max THEN ParseErr("PosOverflow")
    ELSE ParseDigits(Tail(digits), acc * 10 + DigitVal(Head(digits)))

\* a variant of the digit loop with wrapping arithmetic in place of checked
RECURSIVE ParseDigitsWrapping(_, _)
ParseDigitsWrapping(digits, acc) ==
    IF digits = <<>> THEN ParseOk(acc)
    ELSE IF ~IsDigit(Head(digits)) THEN ParseErr("InvalidDigit")
    ELSE ParseDigitsWrapping(Tail(digits),
                             (acc * 10 + DigitVal(Head(digits))) % (U8Max + 1))

ParseU8Wrapping(s) ==
    IF s = <<>> THEN ParseErr("Empty")
    ELSE IF Len(s) = 1 /\ Head(s) \in {"+", "-"} THEN ParseErr("InvalidDigit")
    ELSE IF Head(s) = "+" THEN ParseDigitsWrapping(Tail(s), 0)
    ELSE ParseDigitsWrapping(s, 0)

\* u8::from_str: empty text and a lone sign are errors, one leading "+" is
\* dropped, "-" is no digit of an unsigned type
ParseU8(s) ==
    IF s = <<>> THEN ParseErr("Empty")
    ELSE IF Len(s) = 1 /\ Head(s) \in {"+", "-"} THEN ParseErr("InvalidDigit")
    ELSE IF Head(s) = "+" THEN ParseDigits(Tail(s), 0)
    ELSE ParseDigits(s, 0)

FromStr(s) ==
    LET parsed == ParseU8(s)
    IN  IF parsed.kind = "Err" THEN DayFromStrError
        ELSE LET made == New(parsed.val)
             IN  IF made.kind = "None" THEN DayFromStrError ELSE Ok(made.day)

(***************************************************************************)
(* The calls of day.rs: the caller's argument is drawn at the start, the   *)
(* call records its result.                                                *)
(***************************************************************************)
Pending == [kind |-> "Pending"]
\* a Day that exists was made by Day::new, day! or AllDays: 1..25
Days == {Day(n) : n \in 1..LastDay}

DayInit ==
    /\ dayRet = Pending
    /\ \/ dayOp = "new" /\ dayArg \in U8
       \/ dayOp = "from_str" /\ dayArg \in Texts
       \/ dayOp = "fmt" /\ dayArg \in Days

CallNew ==
    /\ dayOp = "new" /\ dayRet = Pending
    /\ dayRet' = New(dayArg)
    /\ UNCHANGED <<dayOp, dayArg, exceptDay>>

CallFromStr ==
    /\ dayOp = "from_str" /\ dayRet = Pending
    /\ dayRet' = FromStr(dayArg)
    /\ UNCHANGED <<dayOp, dayArg, exceptDay>>

CallDisplay ==
    /\ dayOp = "fmt" /\ dayRet = Pending
    /\ dayRet' = [kind |-> "Text", text |-> Display(dayArg)]
    /\ UNCHANGED <<dayOp, dayArg, exceptDay>>

DayIdle == dayOp = "idle" /\ dayArg = 0 /\ dayRet = Pending

(***************************************************************************)
(* AllDays                                                                 *)
(***************************************************************************)
Iters == 1..NumIters

\* AllDays::new
IterInit == iterCur = [i \in Iters |-> 1] /\ iterRets = [i \in Iters |-> <<>>]

\* a variant that stops one day early
NextRetOffByOne(cur) == IF cur >= LastDay THEN None ELSE Some(Day(cur))

\* what next() returns with self.current = cur
NextRet(cur) == IF cur > LastDay THEN None ELSE Some(Day(cur))

\* self.current after next(): `+= 1` on a u8
NextCur(cur) == IF NextRet(cur).kind = "None" THEN cur ELSE (cur + 1) % (U8Max + 1)

AllDaysNext(i) ==
    /\ Len(iterRets[i]) < LastDay + MaxExtraCalls
    /\ iterRets' = [iterRets EXCEPT ![i] = Append(@, NextRet(iterCur[i]))]
    /\ iterCur' = [iterCur EXCEPT ![i] = NextCur(@)]
    /\ UNCHANGED exceptIter

IterIdle == iterCur = [i \in Iters |-> 1] /\ iterRets = [i \in Iters |-> <<>>]

(***************************************************************************)
(* Day::today.  The clock is Utc::now(): a month, a day of the month and   *)
(* an hour, in a leap year or not; nov1Weekday is the weekday of the 1st   *)
(* of November of that year (chrono: 0 = Monday .. 6 = Sunday).            *)
(***************************************************************************)
SERVER_UTC_OFFSET == 1
November == 11
Saturday == 5
Sunday == 6

DaysIn(month, leap) ==
    IF month = 2 THEN (IF leap THEN 29 ELSE 28)
    ELSE IF month \in {4, 6, 9, 11} THEN 30 ELSE 31

\* Utc::now().with_timezone(&offset): the clock moved east by the offset
WithTimezone(month, day, hour, leap) ==
    IF hour + SERVER_UTC_OFFSET < 24
    THEN [month |-> month, day |-> day, newYear |-> FALSE]
    ELSE IF day < DaysIn(month, leap)
    THEN [month |-> month, day |-> day + 1, newYear |-> FALSE]
    ELSE IF month < 12
    THEN [month |-> month + 1, day |-> 1, newYear |-> FALSE]
    ELSE [month |-> 1, day |-> 1, newYear |-> TRUE]

\* NaiveDate::weekday of the n-th day counted from the 1st of November
\* (31 is the 1st of December)
WeekdayOf(n, nov1) == (nov1 + n - 1) % 7

IsWeekend(n, nov1) == WeekdayOf(n, nov1) \in {Saturday, Sunday}

\* (1..=7).find_map(..): the first day of November that is a Monday
FirstMonday(nov1) ==
    LET found == {d \in 1..7 : WeekdayOf(d, nov1) = 0}
    IN  CHOOSE d \in found : \A e \in found : d <= e

\* the while loop: weekdays from `current` to `today`, both included
RECURSIVE CountWeekdays(_, _, _, _)
CountWeekdays(current, today, nov1, count) ==
    IF current > today THEN count
    ELSE CountWeekdays(current + 1, today, nov1,
                       IF IsWeekend(current, nov1) THEN count ELSE count + 1)

TodayOf(local, nov1) ==
    IF local.month # November THEN None
    ELSE IF local.day < FirstMonday(nov1) THEN None
    ELSE IF IsWeekend(local.day, nov1) THEN None
    ELSE LET weekday_count == CountWeekdays(FirstMonday(nov1), local.day, nov1, 0)
         IN  IF weekday_count > 0 /\ weekday_count <= 20
             THEN New(weekday_count) ELSE None

TodayInit ==
    /\ nowLeap \in BOOLEAN
    /\ nowMonth \in 1..12
    /\ nowDay \in 1..DaysIn(nowMonth, nowLeap)
    /\ nowHour \in 0..23
    /\ nov1Weekday \in 0..6
    /\ todayRet = Pending

Today ==
    /\ todayRet = Pending
    /\ todayRet' = TodayOf(WithTimezone(nowMonth, nowDay, nowHour, nowLeap), nov1Weekday)
    /\ UNCHANGED <<nowMonth, nowDay, nowHour, nowLeap, nov1Weekday, exceptToday>>

TodayIdle == nowMonth = 1 /\ nowDay = 1 /\ nowHour = 0 /\ nowLeap = FALSE
             /\ nov1Weekday = 0 /\ todayRet = Pending

(***************************************************************************)
(* mod.rs: read_file and the main that solution! generates.  mainFiles is  *)
(* data/inputs/DD-p.txt for the day DD of the binary, p in 1..3.           *)
(***************************************************************************)
Parts == 1..3
\* a file of the file system: not there, or there with its text
Absent == [exists |-> FALSE, text |-> <<>>]
File(text) == [exists |-> TRUE, text |-> text]
\* what a file of the day may be before the program runs: not there,
\* there and empty, there with something in it
FileStates == {Absent, File(<<>>), File(<<"x">>)}

\* the arms of solution!: every part, or the one part named
MacroArms == {<<1, 2, 3>>, <<1>>, <<2>>, <<3>>}

\* cwd.join("data").join(folder).join(format!("{day}-{part}.txt"))
FilePath(folder, day, part) ==
    <<"data", folder, Display(day) \o <<"-">> \o Decimal(part) \o <<".txt">>>>

MainInit ==
    /\ mainDay \in Days
    /\ mainParts \in MacroArms
    /\ mainFiles \in [Parts -> FileStates]
    /\ mainIdx = 1
    /\ mainPc = "read"
    /\ mainInput = <<>>
    /\ mainLog = <<>>

\* a variant of main in which the input is read once, before the first
\* part, and kept for the later parts
ReadFileHoisted ==
    /\ mainPc = "read"
    /\ LET part == mainParts[mainIdx]
           file == mainFiles[part]
       IN  IF mainIdx > 1
           THEN mainPc' = "call" /\ UNCHANGED <<mainInput, mainLog>>
           ELSE /\ mainLog' = Append(mainLog,
                    [ev |-> "read", part |-> part, ok |-> file.exists,
                     path |-> FilePath("inputs", mainDay, part)])
                /\ IF ~file.exists
                   THEN mainPc' = "panicked" /\ UNCHANGED mainInput
                   ELSE mainPc' = "call" /\ mainInput' = file.text
    /\ UNCHANGED <<mainDay, mainParts, mainFiles, mainIdx, exceptMain>>

\* let input = read_file("inputs", DAY, $part): fs::read_to_string and
\* expect("could not open input file"), which panics out of main
ReadFile ==
    /\ mainPc = "read"
    /\ LET part == mainParts[mainIdx]
           file == mainFiles[part]
       IN  /\ mainLog' = Append(mainLog,
                 [ev |-> "read", part |-> part, ok |-> file.exists,
                  path |-> FilePath("inputs", mainDay, part)])
           /\ IF ~file.exists
              THEN mainPc' = "panicked" /\ UNCHANGED mainInput
              ELSE mainPc' = "call" /\ mainInput' = file.text
    /\ UNCHANGED <<mainDay, mainParts, mainFiles, mainIdx, exceptMain>>

\* run_part($func, &input, DAY, $part) is entered
RunPartCall ==
    /\ mainPc = "call"
    /\ mainLog' = Append(mainLog,
          [ev |-> "call", part |-> mainParts[mainIdx], input |-> mainInput])
    /\ mainPc' = "running"
    /\ UNCHANGED <<mainDay, mainParts, mainFiles, mainIdx, mainInput, exceptMain>>

\* the call returns (run_part itself is opaque here: it may also never
\* return, and main then stays where it is); main goes on to the next
\* part of the arm, or ends
RunPartReturn ==
    /\ mainPc = "running"
    /\ mainLog' = Append(mainLog, [ev |-> "return", part |-> mainParts[mainIdx]])
    /\ mainIdx' = mainIdx + 1
    /\ mainPc' = IF mainIdx < Len(mainParts) THEN "read" ELSE "done"
    /\ UNCHANGED <<mainDay, mainParts, mainFiles, mainInput, exceptMain>>

MainIdle ==
    /\ mainDay = Day(1) /\ mainParts = <<>> /\ mainFiles = <<>> /\ mainIdx = 1
    /\ mainPc = "idle" /\ mainInput = <<>> /\ mainLog = <<>>

(***************************************************************************)
(* ec_cli.rs and commands/download.rs: handle(day).  dlLog holds every     *)
(* invocation of the external ec-cli command and how it ended.             *)
(***************************************************************************)
NoYear == "<unset>"
\* what get_year() returns: EC_YEAR unset or unparsable, or a year
Years == {NoYear, "2024"}

CommandNotCallable == "CommandNotCallable"
BadExitStatus == "BadExitStatus"
Success == "Success"
\* how Command::output ends in call_ec_cli
CallOutcomes == {CommandNotCallable, BadExitStatus, Success}

OkOutput == [kind |-> "Ok"]
Err(e) == [kind |-> "Err", err |-> e]

\* the argument vector download() builds for one part
FetchArgs(day, part, year) ==
    <<"fetch", "-d", Display(day), "-p", Decimal(part),
      "--sample-path", FilePath("samples", day, part),
      "--sample-answer-path", FilePath("answers", day, part),
      "--input-path", FilePath("inputs", day, part),
      "--description-path",
      <<"data", "descriptions", Display(day) \o <<"-">> \o Decimal(part) \o <<".html">>>>>>
    \o (IF year = NoYear THEN <<>> ELSE <<"-y", year>>)

DlInit ==
    /\ dlDay \in Days
    /\ dlYear \in Years
    /\ dlPc = "check"
    /\ dlPart = 1
    /\ dlRet = Pending
    /\ dlLog = <<>>

\* handle: ec_cli::check() spawns `ec-cli --version`; only a failure to
\* spawn is an error, and handle then exits with status 1
HandleCheck ==
    /\ dlPc = "check"
    /\ \E spawned \in BOOLEAN :
          /\ dlLog' = Append(dlLog, [ev |-> "check", args |-> <<"--version">>,
                                     ok |-> spawned])
          /\ dlPc' = IF spawned THEN "fetch" ELSE "exit1"
    /\ UNCHANGED <<dlDay, dlYear, dlPart, dlRet, exceptDl>>

\* a variant of the loop without the `?`: the result of a part is dropped
\* and the loop goes on
DownloadPartIgnoringError ==
    /\ dlPc = "fetch"
    /\ \E outcome \in CallOutcomes :
          /\ dlLog' = Append(dlLog, [ev |-> "fetch", part |-> dlPart,
                                     args |-> FetchArgs(dlDay, dlPart, dlYear),
                                     outcome |-> outcome])
          /\ IF dlPart < 3
             THEN dlPart' = dlPart + 1 /\ UNCHANGED <<dlPc, dlRet>>
             ELSE dlPc' = "downloaded" /\ dlRet' = OkOutput /\ UNCHANGED dlPart
    /\ UNCHANGED <<dlDay, dlYear, exceptDl>>

\* one turn of the loop of download(): call_ec_cli(&args)?, and after the
\* third part Ok(Output)
DownloadPart ==
    /\ dlPc = "fetch"
    /\ \E outcome \in CallOutcomes :
          /\ dlLog' = Append(dlLog, [ev |-> "fetch", part |-> dlPart,
                                     args |-> FetchArgs(dlDay, dlPart, dlYear),
                                     outcome |-> outcome])
          /\ IF outcome # Success
             THEN dlPc' = "downloaded" /\ dlRet' = Err(outcome) /\ UNCHANGED dlPart
             ELSE IF dlPart < 3
             THEN dlPart' = dlPart + 1 /\ UNCHANGED <<dlPc, dlRet>>
             ELSE dlPc' = "downloaded" /\ dlRet' = OkOutput /\ UNCHANGED dlPart
    /\ UNCHANGED <<dlDay, dlYear, exceptDl>>

\* handle: if let Err(e) = ec_cli::download(day) { process::exit(1) }
HandleResult ==
    /\ dlPc = "downloaded"
    /\ dlPc' = IF dlRet.kind = "Err" THEN "exit1" ELSE "returned"
    /\ UNCHANGED <<dlDay, dlYear, dlPart, dlRet, dlLog, exceptDl>>

DlIdle ==
    /\ dlDay = Day(1) /\ dlYear = NoYear /\ dlPc = "idle" /\ dlPart = 1
    /\ dlRet = Pending /\ dlLog = <<>>

(***************************************************************************)
(* commands/scaffold.rs: handle(day, overwrite).  The files are those of   *)
(* the day: src/bin/DD.rs, data/inputs/DD-p.txt and data/samples/DD-p.txt. *)
(***************************************************************************)
\* MODULE_TEMPLATE.replace("%DAY_NUMBER%", &day.into_inner().to_string())
ModuleText(day) == <<"everybody_codes::solution!(">> \o Decimal(IntoInner(day)) \o <<");">>
\* the days the command is called with: one digit and two
ScaffoldDays == {Day(8), Day(25)}

ScInit ==
    /\ scDay \in ScaffoldDays
    /\ scOverwrite \in BOOLEAN
    /\ scPc = "dir_inputs"
    /\ scPart = 1
    /\ scModule \in FileStates
    /\ scInputs \in [Parts -> FileStates]
    /\ scSamples \in [Parts -> FileStates]
    /\ scBefore = [module |-> scModule, inputs |-> scInputs, samples |-> scSamples]

scFrame == <<scDay, scOverwrite, scBefore>>

\* fs::create_dir_all("data/inputs"): Ok when the directory is there (a file
\* of the day in it shows that); otherwise it is made, or handle exits
CreateInputsDir ==
    /\ scPc = "dir_inputs"
    /\ \E ok \in BOOLEAN :
          /\ ok \/ \A p \in Parts : ~scInputs[p].exists
          /\ scPc' = IF ok THEN "dir_samples" ELSE "exit1"
    /\ UNCHANGED <<scFrame, scPart, scModule, scInputs, scSamples, exceptSc>>

\* fs::create_dir_all("data/samples")
CreateSamplesDir ==
    /\ scPc = "dir_samples"
    /\ \E ok \in BOOLEAN :
          /\ ok \/ \A p \in Parts : ~scSamples[p].exists
          /\ scPc' = IF ok THEN "dir_descriptions" ELSE "exit1"
    /\ UNCHANGED <<scFrame, scPart, scModule, scInputs, scSamples, exceptSc>>

\* fs::create_dir_all("data/descriptions")
CreateDescriptionsDir ==
    /\ scPc = "dir_descriptions"
    /\ \E ok \in BOOLEAN : scPc' = IF ok THEN "module" ELSE "exit1"
    /\ UNCHANGED <<scFrame, scPart, scModule, scInputs, scSamples, exceptSc>>

\* a file opened with .truncate(true): whatever it held, it is empty
Truncated(file) == File(<<>>)

\* safe_create_file(&module_path, overwrite): create_new fails on a file
\* that is there; any open may fail for the system's own reasons
SafeCreateFile ==
    /\ scPc = "module"
    /\ \E io_ok \in BOOLEAN :
          IF io_ok /\ (scOverwrite \/ ~scModule.exists)
          THEN scModule' = Truncated(scModule) /\ scPc' = "write"
          ELSE scPc' = "exit1" /\ UNCHANGED scModule
    /\ UNCHANGED <<scFrame, scPart, scInputs, scSamples, exceptSc>>

\* file.write_all(template): written, or handle exits
WriteModule ==
    /\ scPc = "write"
    /\ \E io_ok \in BOOLEAN :
          IF io_ok
          THEN scModule' = File(ModuleText(scDay)) /\ scPc' = "input"
          ELSE scPc' = "exit1" /\ UNCHANGED scModule
    /\ UNCHANGED <<scFrame, scPart, scInputs, scSamples, exceptSc>>

\* create_file(&input_path) in the loop over the parts
CreateInputFile ==
    /\ scPc = "input"
    /\ \E io_ok \in BOOLEAN :
          IF io_ok
          THEN /\ scInputs' = [scInputs EXCEPT ![scPart] = Truncated(@)]
               /\ scPc' = "sample"
          ELSE scPc' = "exit1" /\ UNCHANGED scInputs
    /\ UNCHANGED <<scFrame, scPart, scModule, scSamples, exceptSc>>

\* create_file(&sample_path), and the loop's next turn or its end
CreateSampleFile ==
    /\ scPc = "sample"
    /\ \E io_ok \in BOOLEAN :
          IF io_ok
          THEN /\ scSamples' = [scSamples EXCEPT ![scPart] = Truncated(@)]
               /\ IF scPart < 3
                  THEN scPart' = scPart + 1 /\ scPc' = "input"
                  ELSE scPc' = "returned" /\ UNCHANGED scPart
          ELSE scPc' = "exit1" /\ UNCHANGED <<scSamples, scPart>>
    /\ UNCHANGED <<scFrame, scModule, scInputs, exceptSc>>

ScIdle ==
    /\ scDay = Day(1) /\ scOverwrite = FALSE /\ scPc = "idle" /\ scPart = 1
    /\ scModule = Absent /\ scInputs = <<>> /\ scSamples = <<>> /\ scBefore = <<>>

(***************************************************************************)
(* The specifications.                                                     *)
(***************************************************************************)
InitDay == DayInit /\ IterIdle /\ TodayIdle /\ MainIdle /\ DlIdle /\ ScIdle
NextDay == CallNew \/ CallFromStr \/ CallDisplay
SpecDay == InitDay /\ [][NextDay]_vars

InitAllDays == DayIdle /\ IterInit /\ TodayIdle /\ MainIdle /\ DlIdle /\ ScIdle
NextAllDays == \E i \in Iters : AllDaysNext(i)
SpecAllDays == InitAllDays /\ [][NextAllDays]_vars

InitToday == DayIdle /\ IterIdle /\ TodayInit /\ MainIdle /\ DlIdle /\ ScIdle
NextToday == Today
SpecToday == InitToday /\ [][NextToday]_vars

InitMain == DayIdle /\ IterIdle /\ TodayIdle /\ MainInit /\ DlIdle /\ ScIdle
NextMain == ReadFile \/ RunPartCall \/ RunPartReturn
SpecMain == InitMain /\ [][NextMain]_vars

InitDownload == DayIdle /\ IterIdle /\ TodayIdle /\ MainIdle /\ DlInit /\ ScIdle
NextDownload == HandleCheck \/ DownloadPart \/ HandleResult
SpecDownload == InitDownload /\ [][NextDownload]_vars

InitScaffold == DayIdle /\ IterIdle /\ TodayIdle /\ MainIdle /\ DlIdle /\ ScInit
NextScaffold ==
    \/ CreateInputsDir \/ CreateSamplesDir \/ CreateDescriptionsDir
    \/ SafeCreateFile \/ WriteModule \/ CreateInputFile \/ CreateSampleFile
SpecScaffold == InitScaffold /\ [][NextScaffold]_vars

(***************************************************************************)
(* Claims about day.rs.                                                    *)
(***************************************************************************)
\* C1: Day::new(n) returns a Day holding n exactly when 1 <= n <= 25 and
\* None for n = 0 and every n in 26..=255; into_inner of the returned Day
\* is the n it was built from.
C1_NewValidatesRange ==
    (dayOp = "new" /\ dayRet # Pending) =>
        /\ dayArg \in 1..25 =>
              /\ dayRet.kind = "Some"
              /\ dayRet.day = Day(dayArg)
              /\ IntoInner(dayRet.day) = dayArg
        /\ (dayArg = 0 \/ dayArg \in 26..255) => dayRet = None

C1_Witness ==
    dayOp = "new" /\ dayArg = 25 /\ dayRet.kind = "Some" /\ IntoInner(dayRet.day) = 25

\* C2: next() on all_days() yields Day 1, Day 2, .., Day 25 in ascending
\* order, each once, then None on that call and on every later one; the
\* counter never exceeds 26.
C2_AllDaysYieldsEachDayOnce ==
    \A i \in Iters :
        /\ iterCur[i] \in 1..26
        /\ iterCur[i] = (IF Len(iterRets[i]) < 25 THEN Len(iterRets[i]) + 1 ELSE 26)
        /\ \A k \in 1..Len(iterRets[i]) :
              iterRets[i][k] = (IF k <= 25 THEN Some(Day(k)) ELSE None)

C2_Witness ==
    \E i \in Iters :
        /\ Len(iterRets[i]) >= 27
        /\ iterRets[i][25] = Some(Day(25))
        /\ iterRets[i][26] = None
        /\ iterRets[i][27] = None

\* the number a text of decimal digits denotes, without any width
RECURSIVE DecimalValue(_)
DecimalValue(digits) ==
    IF digits = <<>> THEN 0
    ELSE DecimalValue(SubSeq(digits, 1, Len(digits) - 1)) * 10
         + DigitVal(digits[Len(digits)])

Unsigned(s) == IF s # <<>> /\ Head(s) = "+" THEN Tail(s) ELSE s
\* s is the text of the 8-bit unsigned integer n: digits, after at most one
\* "+", that denote n
DenotesU8(s, n) ==
    /\ Unsigned(s) # <<>>
    /\ \A i \in 1..Len(Unsigned(s)) : IsDigit(Unsigned(s)[i])
    /\ DecimalValue(Unsigned(s)) = n
    /\ n \in 0..255

\* C5: parsing a text as a Day returns Ok(Day n) exactly when the text is
\* that of an 8-bit unsigned integer n with 1 <= n <= 25; every other text
\* returns DayFromStrError, and no Day outside 1..25 is ever returned.
C5_FromStrAcceptsExactlyDays ==
    (dayOp = "from_str" /\ dayRet # Pending) =>
        /\ \A n \in 1..25 : DenotesU8(dayArg, n) => dayRet = Ok(Day(n))
        /\ (~\E n \in 1..25 : DenotesU8(dayArg, n)) => dayRet = DayFromStrError
        /\ dayRet.kind = "Ok" => IntoInner(dayRet.day) \in 1..25

C5_Witness ==
    /\ dayOp = "from_str" /\ dayArg = <<"2", "5">> /\ dayRet = Ok(Day(25))

\* C6: every valid Day displays as exactly two decimal digits, zero-padded
\* on the left (8 as "08", 25 as "25"); no two days display alike; parsing
\* the displayed text returns the same Day.
C6_DisplayTwoDigitsRoundTrip ==
    (dayOp = "fmt" /\ dayRet # Pending) =>
        LET n == IntoInner(dayArg)
            text == dayRet.text
        IN  /\ Len(text) = 2
            /\ text = <<DigitChars[(n \div 10) + 1], DigitChars[(n % 10) + 1]>>
            /\ n = 8 => text = <<"0", "8">>
            /\ n = 25 => text = <<"2", "5">>
            /\ \A other \in Days : Display(other) = text => other = dayArg
            /\ FromStr(text) = Ok(dayArg)

C6_Witness ==
    dayOp = "fmt" /\ dayArg = Day(8) /\ dayRet # Pending /\ dayRet.text = <<"0", "8">>

\* the n-th day counted from the 1st of November that the local date is
\* (31 is the 1st of December), 0 for a date outside November and December
LocalDate == WithTimezone(nowMonth, nowDay, nowHour, nowLeap)
DayFromNov1 ==
    IF LocalDate.month = 11 THEN LocalDate.day
    ELSE IF LocalDate.month = 12 THEN 30 + LocalDate.day ELSE 0
\* the k-th weekday counted from a Monday falls this many days after it
WeekdayOffset(k) == ((k - 1) \div 5) * 7 + ((k - 1) % 5)

\* C3: the event starts on the first Monday of November (UTC+1) and runs
\* for 20 weekdays: on the k-th weekday counted from that Monday, k in
\* 1..20, today() returns Some(Day k); on every other date it returns None.
C3_TodayIsKthWeekday ==
    todayRet # Pending =>
        LET monday == CHOOSE d \in 1..7 : (nov1Weekday + d - 1) % 7 = 0
            ks == {k \in 1..20 : DayFromNov1 = monday + WeekdayOffset(k)}
        IN  /\ \A k \in ks : todayRet = Some(Day(k))
            /\ ks = {} => todayRet = None

(***************************************************************************)
(* Claims about the main of solution!.                                     *)
(***************************************************************************)
LogAt(ev, part) == {i \in 1..Len(mainLog) : mainLog[i].ev = ev /\ mainLog[i].part = part}

\* C4: an unreadable input file is fatal to one (day, part) cell only: when
\* main cannot read the input of part p, the other parts of the arm whose
\* input can be read are still loaded and run.
C4_UnreadableInputSparesSiblings ==
    mainPc \in {"done", "panicked"} =>
        \A i \in 1..Len(mainParts) :
            mainFiles[mainParts[i]].exists =>
                /\ LogAt("read", mainParts[i]) # {}
                /\ LogAt("call", mainParts[i]) # {}

Fetches == SelectSeq(dlLog, LAMBDA e : e.ev = "fetch")

\* C8: download(day) invokes the ec-cli fetch command for parts 1, 2, 3 in
\* ascending order, at most once per part; the first invocation that cannot
\* be called or exits non-zero ends it with that error and no later part is
\* invoked; it returns Ok only after three successful invocations.  handle
\* calls download only after check succeeded and exits with status 1 on
\* either failure.
C8_DownloadStopsAtFirstFailure ==
    /\ Len(Fetches) <= 3
    /\ \A k \in 1..Len(Fetches) :
          /\ Fetches[k].part = k
          /\ Fetches[k].args[1] = "fetch"
          /\ Fetches[k].args[5] = Decimal(k)
          /\ Fetches[k].outcome # Success =>
                /\ k = Len(Fetches)
                /\ dlRet = Err(Fetches[k].outcome)
    /\ dlRet = OkOutput =>
          /\ Len(Fetches) = 3
          /\ \A k \in 1..3 : Fetches[k].outcome = Success
    /\ dlRet.kind = "Err" => Fetches[Len(Fetches)].outcome = dlRet.err
    /\ Fetches # <<>> => dlLog[1].ev = "check" /\ dlLog[1].ok
    /\ \A i \in 2..Len(dlLog) : dlLog[i].ev = "fetch"
    /\ (dlLog # <<>> /\ ~dlLog[1].ok) => dlPc = "exit1" /\ Len(dlLog) = 1
    /\ dlPc = "exit1" => (~dlLog[1].ok \/ dlRet.kind = "Err")
    /\ dlPc = "returned" => dlRet = OkOutput
    /\ dlRet.kind = "Err" => dlPc \in {"downloaded", "exit1"}

C8_Witness ==
    /\ dlPc = "exit1" /\ Len(Fetches) = 2
    /\ Fetches[1].outcome = Success /\ Fetches[2].outcome = BadExitStatus
    /\ dlRet = Err(BadExitStatus)

(***************************************************************************)
(* Claims about scaffold.                                                  *)
(***************************************************************************)
\* C9: handle(day, overwrite = false) never changes the contents of a file
\* that was there before the call: the module file and each of the six
\* input and sample files of the day, if present before, hold afterwards
\* what they held, whether the call succeeds or exits.
C9_ScaffoldKeepsExistingFiles ==
    (scPc # "idle" /\ ~scOverwrite) =>
        /\ scBefore.module.exists => scModule = scBefore.module
        /\ \A p \in Parts :
              /\ scBefore.inputs[p].exists => scInputs[p] = scBefore.inputs[p]
              /\ scBefore.samples[p].exists => scSamples[p] = scBefore.samples[p]

=============================================================================
